---- MODULE Spec2Model ----
(***************************************************************************)
(* A model of src/src/state_machine.js: the State record, the StateMachine *)
(* driver (goTo / step / thenTo / callback / unwind / push* / phi), the    *)
(* control API (abort) and the process.nextTick queue the driver schedules *)
(* its ticks on.                                                           *)
(*                                                                         *)
(* The compiled step function `fn`, the cleanup actions and the final      *)
(* callback are code outside the file.  An invocation of one of them is    *)
(* recorded in a history variable; whatever the invoked code then does     *)
(* with the driver shows up as further calls of the driver's methods,      *)
(* which the model allows at any time between two ticks.                   *)
(***************************************************************************)
EXTENDS Integers, Sequences, FiniteSets, TLC

\* ---- bounds of the exploration -------------------------------------------
MaxCalls == 3      \* calls of driver methods made by code outside the driver
MaxInvoke == 2     \* invocations of one continuation

\* ---- domains of the inputs -----------------------------------------------
Null == "null"
Errs == {"e1", "e2"}
StepIds == {1, 2}
\* argument lists compiled code passes to callback(err, value...)
CallbackArgs == {<<Null>>, <<Null, "v1">>, <<"e1">>, <<"e1", "v1">>}
\* argument lists an asynchronous operation passes to a continuation
ContArgs == {<<Null, "v1">>, <<"e1">>}
\* values of the compiled code's local variables (captureStateVars)
StateVarValues == {0, 1}

\* branch-site ids, case values, case lists and block sizes of jump tables
TableIds == {3, 10}
CaseVals == {1, 2, 3}
CaseLists == {<<1, 2>>, <<3>>}
BlockSizes == {5, 7}

\* JavaScript truthiness of an error value: `if (err)`
Truthy(x) == x # Null

VARIABLES
    \* State (lines 6-18)
    id, args, err, unwinding, phi, installed_catches, waiting,
    isFinished, isUnwinding, abort_with_error,
    \* StateMachine (lines 45-64)
    finalCallback,   \* TRUE iff a completion callback was given
    stateVars,       \* the local variables captureStateVars / restoreStateVars see
    \* process.nextTick queue, oldest first
    queue,
    \* the closures thenTo has returned: <<[id, done, calls, entered]>>
    conts,
    \* history
    finalCalls,      \* number of invocations of finalCallback
    finalArgs,       \* arguments of its last invocation
    ranLog,          \* cleanup actions in the order they ran
    registered,      \* number of cleanup actions registered so far
    fnCall,          \* the last invocation of the step function
    forced,          \* the last callback()/abort() still to fall through
    handlerActive,   \* a step entered by unwinding has not yet called callback()
    calls,           \* driver methods called so far
    \* jump tables
    cachedJumpTable, \* StateMachine.cachedJumpTable: branch-site id -> JumpTable
    thrown           \* the last Error jumpToCase threw (history)

stateV == <<id, args, err, unwinding, phi, installed_catches, waiting,
            isFinished, isUnwinding, abort_with_error>>
histV == <<finalCalls, finalArgs, ranLog, registered, fnCall, forced,
           handlerActive, calls>>
jumpV == <<cachedJumpTable, thrown>>
vars == <<stateV, finalCallback, stateVars, queue, conts, histV, jumpV>>

\* ---- frames, ticks --------------------------------------------------------
NoFn == 0
NoStep == 0
\* {cleanup: true, fn: ...}  (line 145)
ActionFrame(n) == [isError |-> FALSE, fn |-> n, step |-> NoStep, state |-> 0]
\* {cleanup: true, step: id, state: captureStateVars()}  (line 154)
StepFrame(i, s) == [isError |-> FALSE, fn |-> NoFn, step |-> i, state |-> s]
\* {isError: true, step: id}  (line 159)
ErrorFrame(i) == [isError |-> TRUE, fn |-> NoFn, step |-> i, state |-> 0]

\* a tick on the nextTick queue; `by` records who scheduled it, `id` the step
\* goTo was called with
StepTick(by, i) == [fn |-> "boundStep", by |-> by, id |-> i]
UnwindTick == [fn |-> "boundUnwind", by |-> "callback"]

NoForced == [args |-> <<>>, by |-> "none", steps |-> FALSE,
             transfers |-> FALSE, resumed |-> FALSE]
NoArgs == <<>>
\* cachedJumpTable[id] of a site no table was built for; no Error thrown yet
NoTable == [id |-> 0, cases |-> <<>>, blockSizes |-> <<>>, stepIDs |-> <<>>,
            beyondID |-> 0]
NoError == [site |-> 0, caseVal |-> 0]

\* ---- State() and new StateMachine(context, callback, fn) ------------------
Init ==
    /\ id = 0
    /\ args = <<Null, Null>>
    /\ err = Null
    /\ unwinding = <<>>
    /\ phi = <<>>
    /\ installed_catches = {}
    /\ waiting = 0
    /\ isFinished = FALSE
    /\ isUnwinding = FALSE
    /\ abort_with_error = Null
    /\ finalCallback \in BOOLEAN
    /\ stateVars = 0
    /\ queue = <<>>
    /\ conts = <<>>
    /\ finalCalls = 0
    /\ finalArgs = NoArgs
    /\ ranLog = <<>>
    /\ registered = 0
    /\ fnCall = [flip |-> 0, id |-> 0, args |-> NoArgs, abort |-> FALSE, via |-> "none"]
    /\ forced = NoForced
    /\ handlerActive = FALSE
    /\ calls = 0
    /\ cachedJumpTable = [i \in TableIds |-> NoTable]
    /\ thrown = NoError

\* ---- helpers: the bodies of methods other methods call --------------------

\* this.fn.apply/call(context, a): the step function is entered
InvokeFn(i, a, isAbort, via) ==
    fnCall' = [flip |-> 1 - fnCall.flip, id |-> i, args |-> a,
               abort |-> isAbort, via |-> via]

\* StateMachine.prototype.goTo, scheduling on queue q
goTo(q, i, by) ==
    /\ id' = i
    /\ waiting' = waiting + 1
    /\ queue' = Append(q, StepTick(by, i))

\* callback storing the values without the error (slice from 1)
callback_sliceValues(q, a) ==
    /\ args' = Tail(a)
    /\ err' = IF Len(a) > 0 THEN a[1] ELSE Null
    /\ queue' = Append(q, UnwindTick)

\* StateMachine.prototype.callback(err, ...), scheduling on queue q
callback(q, a) ==
    /\ args' = a
    /\ err' = IF Len(a) > 0 THEN a[1] ELSE Null
    /\ queue' = Append(q, UnwindTick)

HasErrorFrame(s) == \E k \in 1..Len(s) : s[k].isError
HasStepFrame(s) == \E k \in 1..Len(s) : ~s[k].isError /\ s[k].fn = NoFn

\* history: callback(a) was called by `by` in an unfinished machine with no
\* error-step frame on the stack, and no method was called since.
\* steps: a cleanup-step frame was on the stack; transfers: an unwind tick
\* has called goTo since; resumed: a step tick has run since
NoteForced(a, by) ==
    forced' = IF ~isFinished /\ ~HasErrorFrame(unwinding)
              THEN [args |-> a, by |-> by, steps |-> HasStepFrame(unwinding),
                    transfers |-> FALSE, resumed |-> FALSE]
              ELSE NoForced

Called == calls' = calls + 1
CanCall == calls < MaxCalls

\* ---- the driver's methods, called by compiled code or the owner -----------

\* StateMachine.prototype.start
start ==
    /\ CanCall /\ Called
    /\ goTo(queue, 1, "code")
    /\ forced' = NoForced
    /\ UNCHANGED <<args, err, unwinding, phi, installed_catches, isFinished,
                   isUnwinding, abort_with_error, finalCallback, stateVars, conts,
                   finalCalls, finalArgs, ranLog, registered, fnCall, handlerActive>>
    /\ UNCHANGED jumpV

callGoTo(i) ==
    /\ CanCall /\ Called
    /\ goTo(queue, i, "code")
    /\ forced' = NoForced
    /\ UNCHANGED <<args, err, unwinding, phi, installed_catches, isFinished,
                   isUnwinding, abort_with_error, finalCallback, stateVars, conts,
                   finalCalls, finalArgs, ranLog, registered, fnCall, handlerActive>>
    /\ UNCHANGED jumpV

\* StateMachine.prototype.step, run by the scheduler
step ==
    /\ queue # <<>> /\ Head(queue).fn = "boundStep"
    /\ queue' = Tail(queue)
    /\ waiting' = waiting - 1
    /\ IF Truthy(abort_with_error)
       THEN /\ abort_with_error' = Null
            \* the argument is read after the field was cleared
            /\ InvokeFn(id, <<abort_with_error'>>, TRUE, "step")
       ELSE /\ InvokeFn(id, args, FALSE, "step")
            /\ UNCHANGED abort_with_error
    \* the catch or finally step the walk scheduled is entered
    /\ handlerActive' = (handlerActive
                          \/ (Head(queue).by = "unwind" /\ Head(queue).id = id))
    /\ forced' = IF forced.by = "none" THEN forced
                 ELSE [forced EXCEPT !.resumed = TRUE]
    /\ UNCHANGED <<id, args, err, unwinding, phi, installed_catches, isFinished,
                   isUnwinding, finalCallback, stateVars, conts,
                   finalCalls, finalArgs, ranLog, registered, calls>>
    /\ UNCHANGED jumpV

\* StateMachine.prototype.thenTo: returns a new continuation
thenTo(i) ==
    /\ CanCall /\ Called
    /\ waiting' = waiting + 1
    /\ conts' = Append(conts, [id |-> i, done |-> FALSE, calls |-> 0, entered |-> 0])
    /\ forced' = NoForced
    /\ UNCHANGED <<id, args, err, unwinding, phi, installed_catches, isFinished,
                   isUnwinding, abort_with_error, finalCallback, stateVars, queue,
                   finalCalls, finalArgs, ranLog, registered, fnCall, handlerActive>>
    /\ UNCHANGED jumpV

\* the continuation without `_state.id = id`
continuation_keepsId(c, a) ==
    /\ c \in 1..Len(conts)
    /\ conts[c].calls < MaxInvoke
    /\ waiting' = waiting - 1
    /\ IF Truthy(abort_with_error)
       THEN /\ InvokeFn(id, <<abort_with_error>>, TRUE, "thenTo")
            /\ conts' = [conts EXCEPT ![c].calls = @ + 1, ![c].entered = @ + 1]
       ELSE IF ~conts[c].done
       THEN /\ InvokeFn(id, a, FALSE, "thenTo")
            /\ conts' = [conts EXCEPT ![c].calls = @ + 1, ![c].entered = @ + 1,
                                      ![c].done = TRUE]
       ELSE /\ conts' = [conts EXCEPT ![c].calls = @ + 1]
            /\ UNCHANGED fnCall
    /\ forced' = NoForced
    /\ UNCHANGED <<id, args, err, unwinding, phi, installed_catches, isFinished,
                   isUnwinding, abort_with_error, finalCallback, stateVars, queue,
                   finalCalls, finalArgs, ranLog, registered, handlerActive, calls>>
    /\ UNCHANGED jumpV

\* the function thenTo returned (lines 89-103), invoked with arguments a
continuation(c, a) ==
    /\ c \in 1..Len(conts)
    /\ conts[c].calls < MaxInvoke
    /\ waiting' = waiting - 1
    /\ IF Truthy(abort_with_error)
       THEN /\ InvokeFn(id, <<abort_with_error>>, TRUE, "thenTo")
            /\ conts' = [conts EXCEPT ![c].calls = @ + 1, ![c].entered = @ + 1]
            /\ UNCHANGED id
       ELSE IF ~conts[c].done
       THEN /\ id' = conts[c].id
            /\ InvokeFn(conts[c].id, a, FALSE, "thenTo")
            /\ conts' = [conts EXCEPT ![c].calls = @ + 1, ![c].entered = @ + 1,
                                      ![c].done = TRUE]
       ELSE \* console.error('Callback called repeatedly!')
            /\ conts' = [conts EXCEPT ![c].calls = @ + 1]
            /\ UNCHANGED <<id, fnCall>>
    /\ forced' = NoForced
    /\ UNCHANGED <<args, err, unwinding, phi, installed_catches, isFinished,
                   isUnwinding, abort_with_error, finalCallback, stateVars, queue,
                   finalCalls, finalArgs, ranLog, registered, handlerActive, calls>>
    /\ UNCHANGED jumpV

\* StateMachine.prototype.callback, called by compiled code
callCallback(a) ==
    /\ CanCall /\ Called
    /\ callback(queue, a)
    /\ NoteForced(a, "callback")
    /\ handlerActive' = FALSE
    /\ UNCHANGED <<id, unwinding, phi, installed_catches, waiting, isFinished,
                   isUnwinding, abort_with_error, finalCallback, stateVars, conts,
                   finalCalls, finalArgs, ranLog, registered, fnCall>>
    /\ UNCHANGED jumpV

\* abort writing the flag whatever `waiting` is
abort_alwaysFlag(e) ==
    /\ CanCall /\ Called
    /\ abort_with_error' = e
    /\ UNCHANGED <<args, err, queue, forced, handlerActive>>
    /\ UNCHANGED <<id, unwinding, phi, installed_catches, waiting, isFinished,
                   isUnwinding, finalCallback, stateVars, conts,
                   finalCalls, finalArgs, ranLog, registered, fnCall>>
    /\ UNCHANGED jumpV

\* controlAPIMaker: abort(err)
abort(e) ==
    /\ CanCall /\ Called
    /\ IF waiting > 0
       THEN /\ abort_with_error' = e
            /\ UNCHANGED <<args, err, queue, forced, handlerActive>>
       ELSE /\ callback(queue, <<e>>)
            /\ NoteForced(<<e>>, "abort")
            /\ handlerActive' = FALSE
            /\ UNCHANGED abort_with_error
    /\ UNCHANGED <<id, unwinding, phi, installed_catches, waiting, isFinished,
                   isUnwinding, finalCallback, stateVars, conts,
                   finalCalls, finalArgs, ranLog, registered, fnCall>>
    /\ UNCHANGED jumpV

\* unwindFrame taking an error-step frame whether or not state.err is set
unwindFrame_alwaysCatch(where) ==
    /\ isUnwinding' = TRUE
    /\ IF where.isError
       THEN /\ goTo(Tail(queue), where.step, "unwind")
            /\ UNCHANGED <<ranLog, stateVars>>
       ELSE IF where.fn # NoFn
            THEN /\ ranLog' = Append(ranLog, where.fn)
                 /\ queue' = Append(Tail(queue), UnwindTick)
                 /\ UNCHANGED <<id, waiting, stateVars>>
            ELSE /\ stateVars' = where.state
                 /\ goTo(Tail(queue), where.step, "unwind")
                 /\ UNCHANGED ranLog
    /\ UNCHANGED <<isFinished, finalCalls, finalArgs>>

\* unwind, lines 114-130: the frame `where` was popped
unwindFrame(where) ==
    /\ isUnwinding' = TRUE
    /\ IF where.isError
       THEN IF Truthy(err)
            THEN /\ goTo(Tail(queue), where.step, "unwind")
                 /\ UNCHANGED <<ranLog, stateVars>>
            ELSE /\ queue' = Append(Tail(queue), UnwindTick)
                 /\ UNCHANGED <<id, waiting, ranLog, stateVars>>
       ELSE IF where.fn # NoFn
            THEN /\ ranLog' = Append(ranLog, where.fn)
                 /\ queue' = Append(Tail(queue), UnwindTick)
                 /\ UNCHANGED <<id, waiting, stateVars>>
            ELSE /\ stateVars' = where.state
                 /\ goTo(Tail(queue), where.step, "unwind")
                 /\ UNCHANGED ranLog
    /\ UNCHANGED <<isFinished, finalCalls, finalArgs>>

\* unwindFinish without the `!this.state.isFinished` test
unwindFinish_noGuard ==
    /\ waiting' = 0
    /\ isFinished' = TRUE
    /\ IF finalCallback
       THEN finalCalls' = finalCalls + 1 /\ finalArgs' = args
       ELSE UNCHANGED <<finalCalls, finalArgs>>
    /\ queue' = Tail(queue)
    /\ UNCHANGED <<id, unwinding, isUnwinding, ranLog, stateVars>>

\* unwind, lines 131-135: the stack is empty
unwindFinish ==
    /\ IF ~isFinished
       THEN /\ waiting' = 0
            /\ isFinished' = TRUE
            /\ IF finalCallback
               THEN finalCalls' = finalCalls + 1 /\ finalArgs' = args
               ELSE UNCHANGED <<finalCalls, finalArgs>>
       ELSE UNCHANGED <<waiting, isFinished, finalCalls, finalArgs>>
    /\ queue' = Tail(queue)
    /\ UNCHANGED <<id, unwinding, isUnwinding, ranLog, stateVars>>

\* StateMachine.prototype.unwind, run by the scheduler
unwind ==
    /\ queue # <<>> /\ Head(queue).fn = "boundUnwind"
    /\ IF Len(unwinding) > 0
       THEN /\ unwinding' = SubSeq(unwinding, 1, Len(unwinding) - 1)
            /\ unwindFrame(unwinding[Len(unwinding)])
       ELSE unwindFinish
    /\ forced' = IF forced.by # "none" /\ queue' # <<>>
                    /\ queue'[Len(queue')].fn = "boundStep"
                    /\ Len(unwinding) > 0
                 THEN [forced EXCEPT !.transfers = TRUE]
                 ELSE forced
    /\ UNCHANGED <<args, err, phi, installed_catches, abort_with_error,
                   finalCallback, conts, registered, fnCall,
                   handlerActive, calls>>
    /\ UNCHANGED jumpV

\* StateMachine.prototype.unwindNextTick
unwindNextTick ==
    /\ CanCall /\ Called
    /\ queue' = Append(queue, UnwindTick)
    /\ forced' = NoForced
    /\ UNCHANGED <<stateV, finalCallback, stateVars, conts, finalCalls, finalArgs,
                   ranLog, registered, fnCall, handlerActive>>
    /\ UNCHANGED jumpV

\* pushCleanupAction adding the frame at the bottom of the stack (unshift)
pushCleanupAction_unshift ==
    /\ CanCall /\ Called
    /\ registered' = registered + 1
    /\ unwinding' = <<ActionFrame(registered + 1)>> \o unwinding
    /\ forced' = NoForced
    /\ UNCHANGED <<id, args, err, phi, installed_catches, waiting, isFinished,
                   isUnwinding, abort_with_error, finalCallback, stateVars, queue,
                   conts, finalCalls, finalArgs, ranLog, fnCall, handlerActive>>
    /\ UNCHANGED jumpV

\* StateMachine.prototype.pushCleanupAction: the n-th action registered
pushCleanupAction ==
    /\ CanCall /\ Called
    /\ registered' = registered + 1
    /\ unwinding' = Append(unwinding, ActionFrame(registered + 1))
    /\ forced' = NoForced
    /\ UNCHANGED <<id, args, err, phi, installed_catches, waiting, isFinished,
                   isUnwinding, abort_with_error, finalCallback, stateVars, queue,
                   conts, finalCalls, finalArgs, ranLog, fnCall, handlerActive>>
    /\ UNCHANGED jumpV

\* StateMachine.prototype.pushCleanupStep
pushCleanupStep(i) ==
    /\ CanCall /\ Called
    /\ unwinding' = Append(unwinding, StepFrame(i, stateVars))
    /\ forced' = NoForced
    /\ UNCHANGED <<id, args, err, phi, installed_catches, waiting, isFinished,
                   isUnwinding, abort_with_error, finalCallback, stateVars, queue,
                   conts, finalCalls, finalArgs, ranLog, registered, fnCall,
                   handlerActive>>
    /\ UNCHANGED jumpV

\* pushErrorStep without the installed_catches test
pushErrorStep_noGuard(i) ==
    /\ CanCall /\ Called
    /\ unwinding' = Append(unwinding, ErrorFrame(i))
    /\ installed_catches' = installed_catches \cup {i}
    /\ forced' = NoForced
    /\ UNCHANGED <<id, args, err, phi, waiting, isFinished,
                   isUnwinding, abort_with_error, finalCallback, stateVars, queue,
                   conts, finalCalls, finalArgs, ranLog, registered, fnCall,
                   handlerActive>>
    /\ UNCHANGED jumpV

\* StateMachine.prototype.pushErrorStep
pushErrorStep(i) ==
    /\ CanCall /\ Called
    /\ IF i \notin installed_catches
       THEN /\ unwinding' = Append(unwinding, ErrorFrame(i))
            /\ installed_catches' = installed_catches \cup {i}
       ELSE UNCHANGED <<unwinding, installed_catches>>
    /\ forced' = NoForced
    /\ UNCHANGED <<id, args, err, phi, waiting, isFinished,
                   isUnwinding, abort_with_error, finalCallback, stateVars, queue,
                   conts, finalCalls, finalArgs, ranLog, registered, fnCall,
                   handlerActive>>
    /\ UNCHANGED jumpV

\* StateMachine.prototype.pushPhi
pushPhi(i) ==
    /\ CanCall /\ Called
    /\ phi' = Append(phi, i)
    /\ forced' = NoForced
    /\ UNCHANGED <<id, args, err, unwinding, installed_catches, waiting, isFinished,
                   isUnwinding, abort_with_error, finalCallback, stateVars, queue,
                   conts, finalCalls, finalArgs, ranLog, registered, fnCall,
                   handlerActive>>
    /\ UNCHANGED jumpV

\* Array.prototype.pop() of an empty array
Undefined == 0 - 1

\* Phi converging to the oldest entry of the phi stack (shift)
Phi_shift ==
    /\ CanCall /\ Called
    /\ IF phi # <<>>
       THEN /\ goTo(queue, phi[1], "code")
            /\ phi' = Tail(phi)
       ELSE /\ goTo(queue, Undefined, "code")
            /\ UNCHANGED phi
    /\ forced' = NoForced
    /\ UNCHANGED <<args, err, unwinding, installed_catches, isFinished,
                   isUnwinding, abort_with_error, finalCallback, stateVars, conts,
                   finalCalls, finalArgs, ranLog, registered, fnCall, handlerActive>>
    /\ UNCHANGED jumpV

\* StateMachine.prototype.phi
Phi ==
    /\ CanCall /\ Called
    /\ IF phi # <<>>
       THEN /\ goTo(queue, phi[Len(phi)], "code")
            /\ phi' = SubSeq(phi, 1, Len(phi) - 1)
       ELSE /\ goTo(queue, Undefined, "code")
            /\ UNCHANGED phi
    /\ forced' = NoForced
    /\ UNCHANGED <<args, err, unwinding, installed_catches, isFinished,
                   isUnwinding, abort_with_error, finalCallback, stateVars, conts,
                   finalCalls, finalArgs, ranLog, registered, fnCall, handlerActive>>
    /\ UNCHANGED jumpV

\* the compiled code assigns its local variables
assignStateVars(v) ==
    /\ CanCall /\ Called
    /\ v # stateVars
    /\ stateVars' = v
    /\ forced' = NoForced
    /\ UNCHANGED <<stateV, finalCallback, queue, conts, finalCalls, finalArgs,
                   ranLog, registered, fnCall, handlerActive>>
    /\ UNCHANGED jumpV

\* ---- jump tables ------------------------------------------------------------

\* the table inputs the compiled code passes: one case list and one block
\* size per block, no case value in two blocks
MaxBlocks == 2
PairwiseDisjoint(cases) ==
    \A a, b \in 1..Len(cases) :
        a < b => {cases[a][k] : k \in 1..Len(cases[a])}
                     \cap {cases[b][k] : k \in 1..Len(cases[b])} = {}
TableInputs ==
    UNION {{[cases |-> c, blockSizes |-> b] :
               c \in {x \in [1..n -> CaseLists] : PairwiseDisjoint(x)},
               b \in [1..n -> BlockSizes]} : n \in 0..MaxBlocks}

\* JumpTable, lines 183-185: the inner loop over ci from index j
RECURSIVE FillCases(_, _, _, _)
FillCases(j, ci, sum, stepIDs) ==
    IF j > Len(ci) THEN stepIDs
    ELSE FillCases(j + 1, ci, sum, [stepIDs EXCEPT ![ci[j]] = sum])

RECURSIVE FillBlocks(_, _, _, _, _)

\* the outer loop advancing by the block size only, without the phi step
FillBlocks_noPhi(i, sum, stepIDs, cases, blockSizes) ==
    IF i > Len(blockSizes) THEN [stepIDs |-> stepIDs, beyondID |-> sum]
    ELSE FillBlocks(i + 1, sum + blockSizes[i],
                    FillCases(1, cases[i], sum, stepIDs), cases, blockSizes)

\* JumpTable, lines 181-187: the outer loop over the blocks from index i
FillBlocks(i, sum, stepIDs, cases, blockSizes) ==
    IF i > Len(blockSizes) THEN [stepIDs |-> stepIDs, beyondID |-> sum]
    ELSE FillBlocks(i + 1, sum + 1 + blockSizes[i],
                    FillCases(1, cases[i], sum, stepIDs), cases, blockSizes)

\* function JumpTable(sm, id, cases, blockSizes); an index of stepIDs never
\* assigned reads as undefined
JumpTable(i, cases, blockSizes) ==
    LET filled == FillBlocks(1, i + 1, [v \in CaseVals |-> Undefined],
                             cases, blockSizes)
    IN  [id |-> i, cases |-> cases, blockSizes |-> blockSizes,
         stepIDs |-> filled.stepIDs, beyondID |-> filled.beyondID]

\* StateMachine.prototype.jumpTable(id, cases, blockSizes); with no `cases`
\* it returns the cached table, which jumpToCase below reads.  A site's
\* table is built on the first visit.
jumpTable(i, in) ==
    /\ cachedJumpTable[i] = NoTable
    /\ cachedJumpTable' = [cachedJumpTable EXCEPT
                              ![i] = JumpTable(i, in.cases, in.blockSizes)]
    /\ forced' = NoForced
    /\ UNCHANGED <<stateV, finalCallback, stateVars, queue, conts, finalCalls,
                   finalArgs, ranLog, registered, fnCall, handlerActive, calls,
                   thrown>>

\* `if (!stepID)`
NoStepID(x) == x = Undefined \/ x = 0

\* jumpToCase scheduling the step before it tests the step id
jumpToCase_lateTest(i, caseVal) ==
    LET table == cachedJumpTable[i]
        stepID == table.stepIDs[caseVal]
    IN  /\ CanCall /\ Called
        /\ table # NoTable
        /\ phi' = Append(phi, table.beyondID)
        /\ goTo(queue, stepID, "code")
        /\ thrown' = IF NoStepID(stepID)
                     THEN [site |-> table.id, caseVal |-> caseVal]
                     ELSE thrown
        /\ forced' = NoForced
        /\ UNCHANGED <<args, err, unwinding, installed_catches, isFinished,
                       isUnwinding, abort_with_error, finalCallback, stateVars,
                       conts, finalCalls, finalArgs, ranLog, registered, fnCall,
                       handlerActive, cachedJumpTable>>

\* JumpTable.prototype.jumpToCase, on the table of site i
jumpToCase(i, caseVal) ==
    LET table == cachedJumpTable[i]
        stepID == table.stepIDs[caseVal]
    IN  /\ CanCall /\ Called
        /\ table # NoTable
        /\ phi' = Append(phi, table.beyondID)
        /\ IF NoStepID(stepID)
           THEN \* throw new Error("Unhandled case '" + caseVal + "' at step " + this.id)
                /\ thrown' = [site |-> table.id, caseVal |-> caseVal]
                /\ UNCHANGED <<id, waiting, queue>>
           ELSE /\ goTo(queue, stepID, "code")
                /\ UNCHANGED thrown
        /\ forced' = NoForced
        /\ UNCHANGED <<args, err, unwinding, installed_catches, isFinished,
                       isUnwinding, abort_with_error, finalCallback, stateVars,
                       conts, finalCalls, finalArgs, ranLog, registered, fnCall,
                       handlerActive, cachedJumpTable>>

\* the driver as branching code uses it: tables, jumps, phi and resumptions
JumpNext ==
    \/ \E i \in TableIds, in \in TableInputs : jumpTable(i, in)
    \/ \E i \in TableIds, v \in CaseVals : jumpToCase(i, v)
    \/ \E i \in StepIds : pushPhi(i)
    \/ Phi
    \/ step

\* a driver with a completion callback
JumpInit == Init /\ finalCallback

JumpSpec == JumpInit /\ [][JumpNext]_vars

Next ==
    \/ start
    \/ \E i \in StepIds : callGoTo(i)
    \/ step
    \/ \E i \in StepIds : thenTo(i)
    \/ \E c \in 1..Len(conts), a \in ContArgs : continuation(c, a)
    \/ \E a \in CallbackArgs : callCallback(a)
    \/ \E e \in Errs : abort(e)
    \/ unwind
    \/ unwindNextTick
    \/ pushCleanupAction
    \/ \E i \in StepIds : pushCleanupStep(i)
    \/ \E i \in StepIds : pushErrorStep(i)
    \/ \E i \in StepIds : pushPhi(i)
    \/ Phi
    \/ \E v \in StateVarValues : assignStateVars(v)

Spec == Init /\ [][Next]_vars

\* ---- the unwind protocol under a fair scheduler ---------------------------

\* a catch handler or finally body the walk entered calls callback() again
handlerCallback ==
    /\ handlerActive
    /\ \E a \in CallbackArgs :
          /\ callback(queue, a)
          /\ NoteForced(a, "handler")
    /\ handlerActive' = FALSE
    /\ UNCHANGED <<id, unwinding, phi, installed_catches, waiting, isFinished,
                   isUnwinding, abort_with_error, finalCallback, stateVars, conts,
                   finalCalls, finalArgs, ranLog, registered, fnCall, calls>>
    /\ UNCHANGED jumpV

LiveNext == Next \/ handlerCallback

\* process.nextTick runs every tick queued; a handler entered calls back
LiveSpec ==
    /\ Init /\ [][LiveNext]_vars
    /\ WF_vars(step) /\ WF_vars(unwind) /\ WF_vars(handlerCallback)

\* ---- properties ----------------------------------------------------------

Range(f) == {f[k] : k \in 1..Len(f)}
UnwindPending(q) == \E k \in 1..Len(q) : q[k].fn = "boundUnwind"
HandlerPending(q) ==
    \E k \in 1..Len(q) : q[k].fn = "boundStep" /\ q[k].by = "unwind"

\* C1: the completion callback is invoked at most once in the lifetime of a
\* driver, and never in a state where isFinished is already true.
C1_FinalCallbackOnce ==
    [][finalCalls' # finalCalls =>
          /\ ~isFinished
          /\ finalCalls = 0
          /\ finalCalls' = 1]_vars

\* callback() was called again after completion and its unwind tick has run
C1_Witness ==
    /\ isFinished
    /\ finalCalls = 1
    /\ args # finalArgs
    /\ queue = <<>>

\* C2: when the completion callback is invoked the unwind walk is complete:
\* the stack is empty, no resumption the walk started is still scheduled, and
\* no step it entered has still to call callback().
C2_FinalAfterWalk ==
    [][finalCalls' # finalCalls =>
          /\ unwinding = <<>>
          /\ ~HandlerPending(queue')
          /\ ~handlerActive]_vars

\* C3: cleanup actions run one per unwind tick, each at most once, the last
\* registered of those not yet run first, and all of them have run when the
\* completion callback is invoked.
C3_CleanupActionsLIFO ==
    [][/\ ranLog' # ranLog =>
            /\ queue # <<>> /\ Head(queue).fn = "boundUnwind"
            /\ \E n \in 1..registered :
                  /\ ranLog' = Append(ranLog, n)
                  /\ n \notin Range(ranLog)
                  /\ \A m \in 1..registered : m \notin Range(ranLog') => m < n
       /\ finalCalls' # finalCalls => Range(ranLog) = 1..registered
      ]_vars

\* two actions were registered, then callback(null): both ran, last first
C3_Witness ==
    /\ finalCalls = 1
    /\ finalArgs = <<Null>>
    /\ ranLog = <<2, 1>>

\* C4: an unwind tick that pops a frame runs a cleanup action, always goes to
\* a cleanup step, goes to an error step only if state.err is set and
\* otherwise only schedules the next unwind tick; a popped frame is gone, and
\* the stack is empty when the completion callback is invoked.
C4_FramePolicy ==
    [][/\ Len(unwinding') < Len(unwinding) =>
            LET where == unwinding[Len(unwinding)]
                transfers == /\ id' = where.step
                             /\ waiting' = waiting + 1
                             /\ queue' = Append(Tail(queue), StepTick("unwind", where.step))
                             /\ ranLog' = ranLog
                continues == /\ id' = id
                             /\ waiting' = waiting
                             /\ queue' = Append(Tail(queue), UnwindTick)
            IN  /\ unwinding' = SubSeq(unwinding, 1, Len(unwinding) - 1)
                /\ where.isError /\ Truthy(err) => transfers
                /\ where.isError /\ ~Truthy(err) => continues /\ ranLog' = ranLog
                /\ ~where.isError /\ where.fn # NoFn =>
                       continues /\ ranLog' = Append(ranLog, where.fn)
                /\ ~where.isError /\ where.fn = NoFn => transfers
       /\ finalCalls' # finalCalls => unwinding = <<>>
      ]_vars

\* an error-step frame was popped with no error pending: nothing was entered
C4_Witness ==
    /\ isUnwinding
    /\ installed_catches # {}
    /\ unwinding = <<>>
    /\ registered = 0
    /\ id = 0
    /\ waiting = 0
    /\ UnwindPending(queue)

\* C5: after callback(err, value...) with err set and only cleanup-action
\* frames (or none) on the stack, an unwind tick stays scheduled until the
\* machine finishes, and the completion callback gets exactly (err, value...).
C5_ErrorFallsThrough ==
    (forced.by = "callback" /\ ~forced.steps /\ Truthy(forced.args[1])) =>
        /\ ~isFinished => UnwindPending(queue)
        /\ isFinished /\ finalCallback => finalCalls = 1 /\ finalArgs = forced.args

\* callback("e1", "v1") fell through a cleanup action to the completion callback
C5_Witness ==
    /\ forced.by = "callback"
    /\ forced.args = <<"e1", "v1">>
    /\ ranLog # <<>>
    /\ isFinished
    /\ finalArgs = <<"e1", "v1">>

\* the step function was entered in this step
FnEntered == fnCall'.flip # fnCall.flip

\* C6: a resumption or continuation invocation that finds abort_with_error
\* set enters the step function with that error as its sole argument.
C6_AbortErrorDelivered ==
    [][FnEntered /\ Truthy(abort_with_error) =>
          fnCall'.args = <<abort_with_error>>]_vars

\* C7: the resumption or continuation invocation that takes the abort path
\* clears abort_with_error, so that one abort() is consumed once.
C7_AbortConsumedOnce ==
    [][FnEntered /\ Truthy(abort_with_error) =>
          abort_with_error' = Null]_vars

\* the completion an abort() or callback() forced goes through
Completes ==
    /\ ~isFinished => UnwindPending(queue)
    /\ isFinished /\ finalCallback => finalCalls = 1 /\ finalArgs = forced.args

\* abort(err) with nothing outstanding leaves abort_with_error alone and
\* calls callback(err)
AbortForcesCallback ==
    \A e \in Errs :
        abort(e) /\ waiting <= 0 /\ ~isFinished =>
            /\ abort_with_error' = abort_with_error
            /\ args' = <<e>>
            /\ err' = e
            /\ queue' = Append(queue, UnwindTick)

\* C8 as stated: abort(err) at waiting = 0 in an unfinished machine does not
\* write abort_with_error but forces callback(err), and with no error-step
\* frame on the stack the completion callback gets (err) with no step
\* resumption in between.
C8_AbortCompletesWithoutResumption ==
    /\ [][AbortForcesCallback]_vars
    /\ [](forced.by = "abort" => ~forced.resumed /\ Completes)

\* C8 amended: ... with neither an error-step nor a cleanup-step frame on the
\* stack, the unwind walk schedules no step resumption and the completion
\* callback gets (err).
C8_AbortCompletesWithoutTransfer ==
    /\ [][AbortForcesCallback]_vars
    /\ [](forced.by = "abort" /\ ~forced.steps => ~forced.transfers /\ Completes)

\* abort("e2") at waiting = 0 fell through a cleanup action to completion
C8_Witness ==
    /\ forced.by = "abort"
    /\ ranLog # <<>>
    /\ abort_with_error = Null
    /\ isFinished
    /\ finalArgs = <<"e2">>

\* C9: a continuation enters the step function at most once.
C9_ContinuationEntersOnce ==
    \A c \in 1..Len(conts) : conts[c].entered <= 1

\* C10: an invocation of a continuation that was invoked before leaves id,
\* args, err, waiting, abort_with_error, the unwind stack and the phi stack
\* unchanged.
C10_DuplicateLeavesState ==
    [][\A c \in 1..Len(conts) :
          (/\ Len(conts') = Len(conts)
           /\ conts[c].calls >= 1
           /\ conts'[c].calls = conts[c].calls + 1) =>
              UNCHANGED <<id, args, err, waiting, abort_with_error,
                          unwinding, phi>>]_vars
\* number of error-step frames for step i on the stack s
ErrorFrames(s, i) == Cardinality({k \in 1..Len(s) : s[k] = ErrorFrame(i)})

\* C14: the unwind stack holds at most one error-step frame per step id.
C14_OneErrorFramePerId ==
    \A i \in StepIds : ErrorFrames(unwinding, i) <= 1

\* pushErrorStep(1) was called twice and nothing else: one frame
C14_Witness ==
    /\ calls = 2
    /\ unwinding = <<ErrorFrame(1)>>
    /\ installed_catches = {1}
    /\ queue = <<>> /\ conts = <<>> /\ phi = <<>>
    /\ args = <<Null, Null>> /\ abort_with_error = Null
    /\ stateVars = 0 /\ ~isFinished /\ ~isUnwinding

\* C15: callback(...) called once isFinished is true is a no-op: it leaves
\* the State (the stored args and err among it) unchanged and the completion
\* callback is not invoked again.
C15_CallbackAfterFinishNoOp ==
    [][/\ \A a \in CallbackArgs :
             callCallback(a) /\ isFinished => UNCHANGED stateV
       /\ isFinished => finalCalls' = finalCalls]_vars

\* the resumptions scheduled and not yet run: step ticks on the queue and
\* continuations not yet invoked
Outstanding ==
    Cardinality({k \in 1..Len(queue) : queue[k].fn = "boundStep"})
    + Cardinality({c \in 1..Len(conts) : conts[c].calls = 0})

\* C16: waiting equals the number of resumptions scheduled and not yet run,
\* and is never negative.
C16_WaitingCountsOutstanding ==
    /\ waiting = Outstanding
    /\ waiting >= 0

\* C17: a step tick enters the step function with state.id equal to the id
\* its goTo was called with.
C17_ResumesAtScheduledId ==
    [][FnEntered /\ fnCall'.via = "step" => fnCall'.id = Head(queue).id]_vars

\* the first invocation of continuation c, with no abort pending
FirstInvocation(c, a) ==
    /\ continuation(c, a)
    /\ conts[c].calls = 0
    /\ ~Truthy(abort_with_error)

\* what C18 says of it but for state.args: waiting is decremented, state.id
\* is the continuation's id, the step function is entered in the same step
\* with the invocation's arguments, and no tick is scheduled
EntersSynchronously(c, a) ==
    /\ waiting' = waiting - 1
    /\ id' = conts[c].id
    /\ FnEntered
    /\ fnCall'.id = conts[c].id
    /\ fnCall'.args = a
    /\ queue' = queue

C19_InstalledIffOnStack ==
    \A i \in StepIds : i \in installed_catches <=> ErrorFrames(unwinding, i) = 1
\* the steps the first n blocks take: each block and its phi step
RECURSIVE StepsOf(_, _)
StepsOf(blockSizes, n) ==
    IF n = 0 THEN 0 ELSE StepsOf(blockSizes, n - 1) + 1 + blockSizes[n]

\* C11: in a jump table built from (id, cases, blockSizes) every case value
\* of block b enters at id + 1 + the steps of the blocks before b, and
\* beyondID is id + 1 + the steps of all blocks.
C11_JumpTableLayout ==
    \A i \in TableIds :
        LET t == cachedJumpTable[i] IN
        t # NoTable =>
            /\ \A b \in 1..Len(t.cases) : \A k \in 1..Len(t.cases[b]) :
                  t.stepIDs[t.cases[b][k]] = i + 1 + StepsOf(t.blockSizes, b - 1)
            /\ t.beyondID = i + 1 + StepsOf(t.blockSizes, Len(t.blockSizes))

\* JumpTable(sm, 10, [[1,2],[3]], [5,7]): stepIDs 11, 11, 17 and beyondID 25
C11_Witness ==
    /\ cachedJumpTable[10].cases = << <<1, 2>>, <<3>> >>
    /\ cachedJumpTable[10].blockSizes = <<5, 7>>
    /\ cachedJumpTable[10].stepIDs[1] = 11
    /\ cachedJumpTable[10].stepIDs[2] = 11
    /\ cachedJumpTable[10].stepIDs[3] = 17
    /\ cachedJumpTable[10].beyondID = 25

\* C12: jumpToCase(v) for a mapped v pushes the table's beyondID on the phi
\* stack, sets state.id to stepIDs[v] and schedules one resumption; phi() pops
\* the entry pushed last and goes to it.
C12_JumpAndConverge ==
    [][/\ \A i \in TableIds, v \in CaseVals :
             LET table == cachedJumpTable[i] IN
             jumpToCase(i, v) /\ ~NoStepID(table.stepIDs[v]) =>
                 /\ phi' = Append(phi, table.beyondID)
                 /\ id' = table.stepIDs[v]
                 /\ waiting' = waiting + 1
                 /\ queue' = Append(queue, StepTick("code", table.stepIDs[v]))
       /\ Phi /\ phi # <<>> =>
             /\ id' = phi[Len(phi)]
             /\ phi' = SubSeq(phi, 1, Len(phi) - 1)
             /\ waiting' = waiting + 1
             /\ queue' = Append(queue, StepTick("code", phi[Len(phi)]))
      ]_vars

\* a branch of site 10, inside it a branch of site 3, then phi(): the machine
\* is at the beyondID of site 3 and that of site 10 is still on the phi stack
C12_Witness ==
    /\ calls = 3
    /\ cachedJumpTable[3] # NoTable /\ cachedJumpTable[10] # NoTable
    /\ cachedJumpTable[3].beyondID # cachedJumpTable[10].beyondID
    /\ phi = <<cachedJumpTable[10].beyondID>>
    /\ id = cachedJumpTable[3].beyondID
    /\ Len(queue) = 3
    /\ waiting = 3

\* C13: jumpToCase(v) for a v no block maps throws an error naming the site
\* and v, with state.waiting and state.id as they were and no tick scheduled.
C13_UnhandledCase ==
    [][\A i \in TableIds, v \in CaseVals :
          jumpToCase(i, v) /\ NoStepID(cachedJumpTable[i].stepIDs[v]) =>
              /\ thrown' = [site |-> i, caseVal |-> v]
              /\ waiting' = waiting
              /\ id' = id
              /\ queue' = queue]_vars

\* jumpToCase(3) on a table of site 10 that maps only 1 and 2
C13_Witness ==
    /\ thrown = [site |-> 10, caseVal |-> 3]
    /\ cachedJumpTable[10].cases = << <<1, 2>> >>
    /\ calls = 1
    /\ waiting = 0 /\ id = 0 /\ queue = <<>>
\* C20: once callback() has been invoked, with every tick run and every
\* handler the walk enters calling callback() again, the unwind stack is
\* eventually empty, isFinished true and the completion callback invoked.
C20_UnwindCompletes ==
    (forced.by = "callback")
        ~> (/\ unwinding = <<>>
            /\ isFinished
            /\ (finalCallback => finalCalls = 1))
====
